---- MODULE Spec2Model ----
(***************************************************************************)
(* Model of the graph core of lab2_LEE_CHERN_ERN.py: generate_network,     *)
(* the "Network Statistics" block and get_top_proteins.  The three rest on *)
(* networkx (Graph.add_edges_from through from_pandas_edgelist,            *)
(* number_of_edges, density, degree_centrality) and on Python's sorted and *)
(* slicing; each is modelled by what it computes.                          *)
(*                                                                         *)
(* Real numbers are exact fractions <<numerator, denominator>> with a      *)
(* positive denominator; floating-point rounding error is not modelled.    *)
(***************************************************************************)
EXTENDS Integers, Sequences, FiniteSets, TLC

\* Bounds of the model.
MaxRows == 3
MaxTopN == 4

\* Protein names that can occur in a row of the retrieved table.
Names == {"A", "B", "C"}

Databases == {"STRING", "BioGRID"}

\* The arguments get_top_proteins is called with (the slider only ever
\* passes 1..10; the function itself accepts any integer).
TopNs == (0 - MaxTopN) .. MaxTopN

VARIABLES
    database,      \* database_option
    df,            \* processed_df: the rows handed to generate_network
    pc,            \* position in the analysis
    i,             \* next row add_edges_from consumes
    G,             \* the networkx Graph: node (insertion order), adj
    stats,         \* the three metrics of the statistics block
    top_n,         \* argument n of get_top_proteins
    top_proteins   \* its result

vars == <<database, df, pc, i, G, stats, top_n, top_proteins>>

----------------------------------------------------------------------------
\* Helpers

Min(a, b) == IF a < b THEN a ELSE b
Max(a, b) == IF a > b THEN a ELSE b

Range(s) == {s[k] : k \in DOMAIN s}

Front(s) == SubSeq(s, 1, Len(s) - 1)
Last(s) == s[Len(s)]

RECURSIVE SumOver(_, _)
SumOver(f, S) ==
    IF S = {} THEN 0
    ELSE LET x == CHOOSE y \in S : TRUE IN f[x] + SumOver(f, S \ {x})

----------------------------------------------------------------------------
\* generate_network

SourceCol(db) == IF db = "STRING" THEN "preferredName_A" ELSE "OFFICIAL_SYMBOL_A"
TargetCol(db) == IF db = "STRING" THEN "preferredName_B" ELSE "OFFICIAL_SYMBOL_B"

\* One row of the table process_network_data returns for database db.
Row(db, u, v) == (SourceCol(db) :> u) @@ (TargetCol(db) :> v)

\* nx.Graph(): no nodes, no adjacency.
EmptyGraph == [node |-> <<>>, adj |-> <<>>]

\* add_edges_from: "if u not in self._node: self._adj[u] = {}; self._node[u] = {}"
AddNode(g, x) ==
    IF x \in DOMAIN g.adj THEN g
    ELSE [node |-> Append(g.node, x), adj |-> g.adj @@ (x :> {})]

\* A construction that registers only the endpoints of pairs it keeps.
AddEndpointsSkippingLoops(g, u, v) ==
    IF u = v THEN g ELSE AddNode(AddNode(g, u), v)

\* add_edges_from registers both endpoints, source first.
AddEndpoints(g, u, v) == AddNode(AddNode(g, u), v)

\* An adjacency update that records the pair under its source only.
LinkOneWay(adj, u, v) ==
    [x \in DOMAIN adj |-> IF x = u THEN adj[x] \cup {v} ELSE adj[x]]

\* add_edges_from: "self._adj[u][v] = datadict; self._adj[v][u] = datadict"
Link(adj, u, v) ==
    [x \in DOMAIN adj |->
        IF x = u THEN adj[x] \cup {v}
        ELSE IF x = v THEN adj[x] \cup {u}
        ELSE adj[x]]

\* One iteration of Graph.add_edges_from on the pair (u, v).
AddEdge(g, u, v) ==
    LET g2 == AddEndpoints(g, u, v)
    IN  [node |-> g2.node, adj |-> Link(g2.adj, u, v)]

\* from_pandas_edgelist on the first k rows.
RECURSIVE FromEdgelist(_, _, _)
FromEdgelist(rows, db, k) ==
    IF k = 0 THEN EmptyGraph
    ELSE AddEdge(FromEdgelist(rows, db, k - 1),
                 rows[k][SourceCol(db)], rows[k][TargetCol(db)])

----------------------------------------------------------------------------
\* networkx measures

NumberOfNodes(g) == Len(g.node)

\* Graph.degree: a self-loop counts twice.
Degree(g, x) == Cardinality(g.adj[x]) + (IF x \in g.adj[x] THEN 1 ELSE 0)

\* Graph.number_of_edges: sum of the degrees // 2.
NumberOfEdges(g) ==
    SumOver([x \in DOMAIN g.adj |-> Degree(g, x)], DOMAIN g.adj) \div 2

\* The stored edges as unordered pairs; a self-loop is the one-element set.
Edges(g) == UNION {{{x, y} : y \in g.adj[x]} : x \in DOMAIN g.adj}

\* nx.density for an undirected graph.
Density(g) ==
    LET n == NumberOfNodes(g)
        m == NumberOfEdges(g)
    IN  IF m = 0 \/ n <= 1 THEN <<0, 1>> ELSE <<2 * m, n * (n - 1)>>

\* round(x, 4), in ten-thousandths (no fraction of the model is a tie).
Round4(x) == (2 * x[1] * 10000 + x[2]) \div (2 * x[2])

\* A degree centrality that reports 0 for a graph of at most one node.
ScoreZeroWhenAlone(g, x) ==
    IF NumberOfNodes(g) <= 1 THEN <<0, 1>>
    ELSE <<Degree(g, x), NumberOfNodes(g) - 1>>

\* nx.degree_centrality: 1 for every node when len(G) <= 1, else d * 1/(len(G)-1).
Score(g, x) ==
    IF NumberOfNodes(g) <= 1 THEN <<1, 1>>
    ELSE <<Degree(g, x), NumberOfNodes(g) - 1>>

\* degree_centrality(G).items(): the nodes in insertion order, each with its score.
DegreeCentrality(g) ==
    [k \in 1 .. Len(g.node) |-> <<g.node[k], Score(g, g.node[k])>>]

----------------------------------------------------------------------------
\* get_top_proteins

FracLess(a, b) == a[1] * b[2] < b[1] * a[2]
FracEq(a, b) == a[1] * b[2] = b[1] * a[2]
FracLeq(a, b) == FracLess(a, b) \/ FracEq(a, b)

\* A sort key that ranks by ascending centrality.
KeyAscending(item) == item[2]

\* key=lambda x: -x[1]
Key(item) == <<0 - item[2][1], item[2][2]>>

\* An unstable placement: an item goes before the items of equal key.
GoesAfterStrict(a, b) == FracLess(Key(a), Key(b))

\* Stable sort: item b comes after every earlier item a with key(a) <= key(b).
GoesAfter(a, b) == FracLeq(Key(a), Key(b))

\* Insert x into the sorted sequence s behind the items it goes after.
InsertSorted(s, x) ==
    LET p == Cardinality({k \in DOMAIN s : GoesAfter(s[k], x)})
    IN  SubSeq(s, 1, p) \o <<x>> \o SubSeq(s, p + 1, Len(s))

\* sorted(items, key=...)
RECURSIVE Sorted(_)
Sorted(items) ==
    IF items = <<>> THEN <<>>
    ELSE InsertSorted(Sorted(Front(items)), Last(items))

\* A slice that keeps one item too few.
SliceShort(s, n) == SubSeq(s, 1, Max(Min(n, Len(s)) - 1, 0))

\* s[:n]: a negative n counts from the end.
Slice(s, n) ==
    LET stop == IF n < 0 THEN Max(Len(s) + n, 0) ELSE Min(n, Len(s))
    IN  SubSeq(s, 1, stop)

GetTopProteins(g, n) == Slice(Sorted(DegreeCentrality(g)), n)

----------------------------------------------------------------------------
\* The analysis

NoStats == [nodes |-> 0, edges |-> 0, density |-> <<0, 1>>, shown |-> 0]

Init ==
    /\ database \in Databases
    /\ df = <<>>
    /\ pc = "retrieve"
    /\ i = 1
    /\ G = EmptyGraph
    /\ stats = NoStats
    /\ top_n = 0
    /\ top_proteins = <<>>

\* The retrieval hands over one more row (u, v).
Retrieve(u, v) ==
    /\ pc = "retrieve"
    /\ Len(df) < MaxRows
    /\ df' = Append(df, Row(database, u, v))
    /\ UNCHANGED <<database, pc, i, G, stats, top_n, top_proteins>>

\* generate_network on an empty table: "if df.empty: return nx.Graph()".
GenerateEmpty ==
    /\ pc = "retrieve"
    /\ df = <<>>
    /\ G' = EmptyGraph
    /\ pc' = "built"
    /\ UNCHANGED <<database, df, i, stats, top_n, top_proteins>>

\* generate_network on a table with rows: add_edges_from consumes row i.
GenerateStep ==
    /\ pc \in {"retrieve", "build"}
    /\ df # <<>>
    /\ i <= Len(df)
    /\ G' = AddEdge(G, df[i][SourceCol(database)], df[i][TargetCol(database)])
    /\ i' = i + 1
    /\ pc' = IF i = Len(df) THEN "built" ELSE "build"
    /\ UNCHANGED <<database, df, stats, top_n, top_proteins>>

\* The "Network Statistics" block.
NetworkStatistics ==
    /\ pc = "built"
    /\ stats' = [nodes |-> NumberOfNodes(G),
                 edges |-> NumberOfEdges(G),
                 density |-> Density(G),
                 shown |-> Round4(Density(G))]
    /\ pc' = "stats"
    /\ UNCHANGED <<database, df, i, G, top_n, top_proteins>>

\* top_proteins = get_top_proteins(G, n)
TopProteins(n) ==
    /\ pc = "stats"
    /\ top_n' = n
    /\ top_proteins' = GetTopProteins(G, n)
    /\ pc' = "done"
    /\ UNCHANGED <<database, df, i, G, stats>>

Next ==
    \/ \E u \in Names, v \in Names : Retrieve(u, v)
    \/ GenerateEmpty
    \/ GenerateStep
    \/ NetworkStatistics
    \/ \E n \in TopNs : TopProteins(n)

Spec == Init /\ [][Next]_vars

----------------------------------------------------------------------------
\* Vocabulary of the properties

\* Rows add_edges_from has consumed so far.
Consumed == i - 1

Source(r) == df[r][SourceCol(database)]
Target(r) == df[r][TargetCol(database)]

\* Names occurring as an endpoint of a consumed row.
ConsumedNames == {Source(r) : r \in 1 .. Consumed} \cup {Target(r) : r \in 1 .. Consumed}

\* The consumed pairs as unordered pairs ((u, u) is the one-element set).
ConsumedPairs == {{Source(r), Target(r)} : r \in 1 .. Consumed}

\* Where name x first occurs in the table, reading each row source first.
FirstSeen(x) ==
    LET at == {2 * r - 1 : r \in {q \in DOMAIN df : Source(q) = x}} \cup
              {2 * r : r \in {q \in DOMAIN df : Target(q) = x}}
    IN  CHOOSE k \in at : \A m \in at : k <= m

\* Position of node x in the graph's insertion order.
Registered(x) == CHOOSE k \in DOMAIN G.node : G.node[k] = x

NoDuplicates(s) == \A j, k \in DOMAIN s : s[j] = s[k] => j = k

Returned == {top_proteins[k][1] : k \in DOMAIN top_proteins}

\* Lexicographic rank of a name: one-character strings compare by code point.
Ord(s) == CASE s = "A" -> 65 [] s = "B" -> 66 [] s = "C" -> 67

One == <<1, 1>>
Zero == <<0, 1>>

\* The table with the endpoints of every row exchanged.
Swapped == [r \in DOMAIN df |-> Row(database, Target(r), Source(r))]

----------------------------------------------------------------------------
\* C1: no stored edge has equal endpoints, after every prefix of the rows.
\* (Stated as claimed; add_edges_from stores the pair (u, u) as a self-loop.)
C1_NoSelfLoopStored == \A x \in DOMAIN G.adj : x \notin G.adj[x]

Ahead(a, b, ra, rb) ==
    \/ FracLess(b[2], a[2])
    \/ FracEq(a[2], b[2]) /\ ra < rb

\* C3 as claimed: for n >= 1 the result is sorted by non-increasing
\* centrality with ties in ascending lexicographic order of the name, and no
\* omitted node outranks a returned one in that order.
C3_TiesLexicographic ==
    (pc = "done" /\ top_n >= 1) =>
        /\ \A j, k \in DOMAIN top_proteins : j < k =>
               Ahead(top_proteins[j], top_proteins[k],
                     Ord(top_proteins[j][1]), Ord(top_proteins[k][1]))
        /\ \A x \in Range(G.node) \ Returned : \A k \in DOMAIN top_proteins :
               Ahead(top_proteins[k], <<x, Score(G, x)>>,
                     Ord(top_proteins[k][1]), Ord(x))

\* C3 (amended): for n >= 1 the result is sorted by non-increasing
\* centrality with ties in the order the nodes were registered in the graph,
\* and no omitted node outranks a returned one in that order.
C3_TiesByRegistration ==
    (pc = "done" /\ top_n >= 1) =>
        /\ \A j, k \in DOMAIN top_proteins : j < k =>
               Ahead(top_proteins[j], top_proteins[k],
                     Registered(top_proteins[j][1]), Registered(top_proteins[k][1]))
        /\ \A x \in Range(G.node) \ Returned : \A k \in DOMAIN top_proteins :
               Ahead(top_proteins[k], <<x, Score(G, x)>>,
                     Registered(top_proteins[k][1]), Registered(x))

\* A result with a tie among the returned nodes, a node of lower centrality
\* behind it, and an omitted node tied with the last returned one.
C3_Witness ==
    /\ pc = "done"
    /\ top_n >= 1
    /\ Len(top_proteins) >= 2
    /\ \E j \in DOMAIN top_proteins :
           /\ j < Len(top_proteins)
           /\ FracLess(top_proteins[j + 1][2], top_proteins[j][2])
    /\ \E x \in Range(G.node) \ Returned :
           FracEq(Score(G, x), top_proteins[Len(top_proteins)][2])

\* C4: for every n <= 0 get_top_proteins returns the empty sequence.
\* (Stated as claimed; a negative n slices from the end.)
C4_NonPositiveIsEmpty ==
    (pc = "done" /\ top_n <= 0) => top_proteins = <<>>

\* C5: for n >= 1 the result has exactly min(n, |V|) entries, each naming a
\* distinct node of the graph.
C5_LengthIsMin ==
    (pc = "done" /\ top_n >= 1) =>
        /\ Len(top_proteins) = Min(top_n, NumberOfNodes(G))
        /\ NoDuplicates([k \in DOMAIN top_proteins |-> top_proteins[k][1]])
        /\ Returned \subseteq Range(G.node)

C5_Witness ==
    /\ pc = "done"
    /\ NumberOfNodes(G) >= 2
    /\ top_n > NumberOfNodes(G)
    /\ Returned = Range(G.node)

\* C6: the density is 0 when |V| < 2, equals 2|E| / (|V| (|V| - 1)) when
\* |V| >= 2, and never exceeds 1.
\* (Stated as claimed; a stored self-loop is counted in |E|.)
C6_DensityIsFraction ==
    pc \in {"stats", "done"} =>
        /\ stats.nodes < 2 => stats.density = Zero
        /\ stats.nodes >= 2 =>
               FracEq(stats.density,
                      <<2 * Cardinality(Edges(G)), stats.nodes * (stats.nodes - 1)>>)
        /\ FracLeq(stats.density, One)

\* C7: for |V| >= 2 the reported centrality of v is degree(v) / (|V| - 1),
\* degree(v) the number of distinct stored edges incident to v, the number
\* of other nodes v is connected to; every score lies in [0, 1].
\* (Stated as claimed; Graph.degree counts a self-loop twice.)
C7_ScoreIsDegreeFraction ==
    (pc = "done" /\ NumberOfNodes(G) >= 2) =>
        \A k \in DOMAIN top_proteins :
            LET v == top_proteins[k][1]
                incident == Cardinality({e \in Edges(G) : v \in e})
            IN  /\ FracEq(top_proteins[k][2], <<incident, NumberOfNodes(G) - 1>>)
                /\ incident = Cardinality(G.adj[v] \ {v})
                /\ FracLeq(Zero, top_proteins[k][2])
                /\ FracLeq(top_proteins[k][2], One)

\* C8: after every prefix of the rows, an edge {u, v} with u # v is stored
\* exactly when (u, v) or (v, u) was consumed, and the edge count is the
\* number of distinct unordered pairs consumed: a repeated pair, in either
\* order, adds nothing.
C8_OneEdgePerUnorderedPair ==
    /\ \A u, v \in Names : u # v => ({u, v} \in Edges(G) <=> {u, v} \in ConsumedPairs)
    /\ NumberOfEdges(G) = Cardinality(ConsumedPairs)

\* A pair consumed in both orders, held as one edge.
C8_Witness ==
    /\ NumberOfEdges(G) = 1
    /\ \E r, q \in 1 .. Consumed :
           /\ Source(r) # Target(r)
           /\ Source(q) = Target(r)
           /\ Target(q) = Source(r)

\* C9: after every prefix of the rows, the node set is exactly the set of
\* names occurring as an endpoint of a consumed row (a name seen only in a
\* row (u, u) included), each registered once, and every endpoint of a
\* stored edge is a node.
C9_NodesAreEndpoints ==
    /\ Range(G.node) = ConsumedNames
    /\ DOMAIN G.adj = Range(G.node)
    /\ NoDuplicates(G.node)
    /\ \A e \in Edges(G) : e \subseteq Range(G.node)

\* A built graph with a node that occurs only in rows (u, u), beside others.
C9_Witness ==
    /\ pc = "built"
    /\ NumberOfNodes(G) >= 2
    /\ \E x \in Range(G.node) :
           \A r \in 1 .. Consumed :
               (Source(r) = x \/ Target(r) = x) => (Source(r) = x /\ Target(r) = x)

\* C10: among returned nodes of equal centrality the order is the order of
\* first occurrence in the rows, the source of a row before its target.
C10_TiesInRowOrder ==
    pc = "done" =>
        \A j, k \in DOMAIN top_proteins :
            (j < k /\ FracEq(top_proteins[j][2], top_proteins[k][2])) =>
                FirstSeen(top_proteins[j][1]) < FirstSeen(top_proteins[k][1])

\* Two tables that build the same nodes and edges, with the nodes introduced
\* in another order, and a different top-n for the same n.
C10_Witness ==
    /\ pc = "done"
    /\ top_n >= 1
    /\ LET H == FromEdgelist(Swapped, database, Len(df))
       IN  /\ Range(H.node) = Range(G.node)
           /\ H.adj = G.adj
           /\ GetTopProteins(H, top_n) # top_proteins

====
